---- MODULE Spec2Model ----
(***************************************************************************)
(* State-machine model of the habit-gamification engine of src/app.js      *)
(* (schema v2) with its storage wrapper src/db.js.                         *)
(*                                                                         *)
(* The JavaScript global `state` is the record variable `state`; every     *)
(* function of app.js that reads or writes it is an operator from records  *)
(* to records, and every event handler is an action.  An async handler is  *)
(* split at its awaits: the synchronous part up to the first outstanding   *)
(* saveState is one step, and the completion of that write together with   *)
(* the code that follows the await is another.                             *)
(*                                                                         *)
(* Day keys ("YYYY-MM-DD") are day numbers, Jan1 being 2024-01-01 (a       *)
(* Monday); the wall clock `now` counts local hours, hour 24*d being local *)
(* midnight of day d.  Log names and timestamps, challenge and shop names,   *)
(* settings.haptics and profile.lastActiveDay are display-only or never    *)
(* read by the logic and are left out.                                     *)
(***************************************************************************)
EXTENDS Integers, Sequences, FiniteSets, TLC

VARIABLES
    state,      \* app.js:135  the in-memory state object
    now,        \* the wall clock read by `new Date()`, in local hours
    tz,         \* the local timezone's offset from UTC, in hours
    durable,    \* db.js: the value stored under key "state" (NullDoc when none)
    pending,    \* saveState writes in flight, oldest first, each with the
                \* code that runs after its await
    view,       \* what the last renders put on screen (buttons and the
                \* objects their click closures hold)
    maxStreak,  \* history: the largest streak.current held so far
    bonuses,    \* history: boss bonuses granted since the last week reset
    rt,         \* history: the grant / reverseGrant pair in progress
    imp         \* history: the import that ended last, with the in-memory
                \* and stored state it started from

vars == <<state, now, tz, durable, pending, view, maxStreak, bonuses, rt, imp>>

----------------------------------------------------------------------------
(* Bounds of the model                                                     *)

\* last calendar day the clock may reach, counted from Jan1
MaxDays == 2
\* log entries appended in one run of the general specifications
MaxLogs == 3
\* saveState writes in flight at once
MaxPending == 2
\* largest streak a run may reach (the clock can be moved back and forth)
MaxStreak == 2

----------------------------------------------------------------------------
(* Program constants                                                       *)

NULL == -1
\* day number of 2024-01-01, a Monday (day numbers are congruent to getDay mod 7)
Jan1 == 8
DefaultResetHour == 4
DefaultPoints == 10
AssignCount == 3
MilestoneStep == 100
BossBonus == 100

Max(a, b) == IF a >= b THEN a ELSE b
Min(a, b) == IF a <= b THEN a ELSE b

----------------------------------------------------------------------------
(* Clock / calendar (app.js 41-62)                                         *)

\* new Date(key + "T00:00:00"): local midnight of the day, in local hours
localMidnight(day) == 24 * day

\* Date.prototype.toISOString().slice(0,10): the UTC date of an instant
toISODate(localHours) == (localHours - tz) \div 24

todayLocalDateStringAt(hour) ==
    LET shifted == now - hour
        midnight == 24 * (shifted \div 24)      \* setHours(0,0,0,0)
    IN  toISODate(midnight)

\* Math.round((da - db) / 86400000)
dayDiff(a, b) == (2 * (localMidnight(a) - localMidnight(b)) + 24) \div 48

weekStart(dayStr) ==
    LET wd == dayStr % 7                        \* getDay(): 0 = Sunday
        delta == IF wd = 0 THEN 0 - 6 ELSE 1 - wd
    IN  toISODate(localMidnight(dayStr + delta))

----------------------------------------------------------------------------
(* Records and small helpers                                               *)

\* a JavaScript object used as a map: the value under key k, or `dflt`
Get(m, k, dflt) == IF k \in DOMAIN m THEN m[k] ELSE dflt

\* m[k] = v on a JavaScript object used as a map
Put(m, k, v) == [x \in (DOMAIN m) \cup {k} |-> IF x = k THEN v ELSE m[x]]

\* delete m[k]
Del(m, k) == [x \in (DOMAIN m) \ {k} |-> m[x]]

EmptyMap == [x \in {} |-> 0]

\* Array.prototype.splice(i, 1) on a 1-based sequence
RemoveAt(seq, i) == [j \in 1..(Len(seq) - 1) |-> IF j < i THEN seq[j] ELSE seq[j + 1]]

\* Array.prototype.unshift
Unshift(seq, x) == <<x>> \o seq

RECURSIVE SumSeq(_)
SumSeq(seq) == IF seq = <<>> THEN 0 ELSE Head(seq) + SumSeq(Tail(seq))

\* Array.prototype.findIndex, 1-based, 0 when nothing matches
FirstIndex(seq, P(_)) ==
    IF \E i \in 1..Len(seq) : P(seq[i])
    THEN CHOOSE i \in 1..Len(seq) : P(seq[i]) /\ \A j \in 1..(i - 1) : ~P(seq[j])
    ELSE 0

\* Array.prototype.find on a catalog, by id
ItemById(items, id) == items[CHOOSE i \in 1..Len(items) : items[i].id = id]

ItemIds(items) == {items[i].id : i \in 1..Len(items)}

\* in-place mutation of the catalog item with this id
UpdateItem(items, id, f(_)) ==
    [i \in 1..Len(items) |-> IF items[i].id = id THEN f(items[i]) ELSE items[i]]

----------------------------------------------------------------------------
(* Default state and migration (app.js 67-130)                             *)

defaultStateV2 ==
    [ version    |-> 2,
      settings   |-> [resetHour |-> DefaultResetHour],
      profile    |-> [coins |-> 0, bestStreak |-> 0],
      today      |-> [day |-> NULL, points |-> 0, doneCounts |-> EmptyMap,
                      challengeDone |-> {}, lastMilestone |-> 0],
      streak     |-> [current |-> 0],
      tasks      |-> <<>>,
      challenges |-> <<>>,
      shop       |-> <<>>,
      assigned   |-> EmptyMap,
      progress   |-> EmptyMap,
      logs       |-> <<>>,
      weeklyBoss |-> [weekStartDay |-> NULL, goals |-> <<>>, completed |-> FALSE] ]

\* what loadState returns when nothing is stored: null
NullDoc == [null |-> TRUE]

\* old.k, guarded as the optional chaining and the || / ?? defaults guard it
Has(doc, k) == k \in DOMAIN doc
Opt(doc, k, dflt) == IF Has(doc, k) THEN doc[k] ELSE dflt

\* variant of migrateToV2: one schema version is added per call
migrateStepwise(old) ==
    IF old # NullDoc /\ Has(old, "version") /\ old.version >= 3 THEN old
    ELSE IF old = NullDoc THEN defaultStateV2
    ELSE LET d == defaultStateV2
             oldSettings == Opt(old, "settings", EmptyMap)
             oldToday == Opt(old, "today", EmptyMap)
             resetHour == Opt(oldSettings, "resetHour", d.settings.resetHour)
         IN  [ version    |-> Opt(old, "version", 1) + 1,
               settings   |-> [resetHour |-> resetHour],
               profile    |-> Opt(old, "profile", d.profile),
               today      |-> [day |-> Opt(oldToday, "day", NULL),
                               points |-> Opt(oldToday, "points", 0),
                               doneCounts |-> Opt(oldToday, "doneCounts", EmptyMap),
                               challengeDone |-> Opt(oldToday, "challengeDone", {}),
                               lastMilestone |-> 0],
               streak     |-> Opt(old, "streak", d.streak),
               tasks      |-> Opt(old, "tasks", <<>>),
               challenges |-> Opt(old, "challenges", <<>>),
               shop       |-> Opt(old, "shop", <<>>),
               assigned   |-> Opt(old, "assigned", EmptyMap),
               progress   |-> Opt(old, "progress", EmptyMap),
               logs       |-> Opt(old, "logs", <<>>),
               weeklyBoss |-> [weekStartDay |->
                                   weekStart(todayLocalDateStringAt(resetHour)),
                               goals |-> <<>>, completed |-> FALSE] ]

\* variant of migrateToV2: today starts over
migrateToV2FreshToday(old) ==
    IF old # NullDoc /\ Has(old, "version") /\ old.version >= 2 THEN old
    ELSE IF old = NullDoc THEN defaultStateV2
    ELSE LET d == defaultStateV2
             oldSettings == Opt(old, "settings", EmptyMap)
             resetHour == Opt(oldSettings, "resetHour", d.settings.resetHour)
         IN  [ version    |-> 2,
               settings   |-> [resetHour |-> resetHour],
               profile    |-> Opt(old, "profile", d.profile),
               today      |-> d.today,
               streak     |-> Opt(old, "streak", d.streak),
               tasks      |-> Opt(old, "tasks", <<>>),
               challenges |-> Opt(old, "challenges", <<>>),
               shop       |-> Opt(old, "shop", <<>>),
               assigned   |-> Opt(old, "assigned", EmptyMap),
               progress   |-> Opt(old, "progress", EmptyMap),
               logs       |-> Opt(old, "logs", <<>>),
               weeklyBoss |-> [weekStartDay |->
                                   weekStart(todayLocalDateStringAt(resetHour)),
                               goals |-> <<>>, completed |-> FALSE] ]

\* migrateToV2 (97-130).  A stored or imported document is a record holding
\* the fields it has; settings.haptics is not modelled.
migrateToV2(old) ==
    IF old # NullDoc /\ Has(old, "version") /\ old.version >= 2 THEN old
    ELSE IF old = NullDoc THEN defaultStateV2
    ELSE LET d == defaultStateV2
             oldSettings == Opt(old, "settings", EmptyMap)
             oldToday == Opt(old, "today", EmptyMap)
             resetHour == Opt(oldSettings, "resetHour", d.settings.resetHour)
         IN  [ version    |-> 2,
               settings   |-> [resetHour |-> resetHour],
               profile    |-> Opt(old, "profile", d.profile),
               today      |-> [day |-> Opt(oldToday, "day", NULL),
                               points |-> Opt(oldToday, "points", 0),
                               doneCounts |-> Opt(oldToday, "doneCounts", EmptyMap),
                               challengeDone |-> Opt(oldToday, "challengeDone", {}),
                               lastMilestone |-> 0],
               streak     |-> Opt(old, "streak", d.streak),
               tasks      |-> Opt(old, "tasks", <<>>),
               challenges |-> Opt(old, "challenges", <<>>),
               shop       |-> Opt(old, "shop", <<>>),
               assigned   |-> Opt(old, "assigned", EmptyMap),
               progress   |-> Opt(old, "progress", EmptyMap),
               logs       |-> Opt(old, "logs", <<>>),
               weeklyBoss |-> [weekStartDay |->
                                   weekStart(todayLocalDateStringAt(resetHour)),
                               goals |-> <<>>, completed |-> FALSE] ]

----------------------------------------------------------------------------
(* Day and streak engine (app.js 181-247)                                  *)

\* The outcomes of the selection loop of ensureDailyAssignments (229-234):
\* every sequence the random splices can produce.
RECURSIVE PickLoop(_, _)
PickLoop(selected, pickFrom) ==
    IF Len(selected) < AssignCount /\ Len(pickFrom) > 0
    THEN UNION { PickLoop(IF \E k \in 1..Len(selected) : selected[k] = pickFrom[idx]
                          THEN selected ELSE Append(selected, pickFrom[idx]),
                          RemoveAt(pickFrom, idx)) : idx \in 1..Len(pickFrom) }
    ELSE {selected}

\* whether ensureDailyAssignments returns early for this day (218)
HasAssignment(s, day) == day \in DOMAIN s.assigned /\ Len(s.assigned[day]) = AssignCount

\* variant of AssignChoices: archived challenges stay in the pool
AssignChoicesWithArchived(s, day) ==
    LET pool == s.challenges
        ids == [i \in 1..Len(pool) |-> pool[i].id]
        yKey == toISODate(localMidnight(day - 1))
        avoid == IF yKey \in DOMAIN s.assigned
                 THEN {s.assigned[yKey][i] : i \in 1..Len(s.assigned[yKey])} ELSE {}
        NotAvoided(id) == id \notin avoid
        candidates == SelectSeq(ids, NotAvoided)
        pickFrom == IF Len(candidates) >= AssignCount THEN candidates ELSE ids
    IN  PickLoop(<<>>, pickFrom)

\* the sequences ensureDailyAssignments may store for `day` (220-234)
AssignChoices(s, day) ==
    LET IsActive(c) == c.active
        pool == SelectSeq(s.challenges, IsActive)
        ids == [i \in 1..Len(pool) |-> pool[i].id]
        yKey == toISODate(localMidnight(day - 1))
        avoid == IF yKey \in DOMAIN s.assigned
                 THEN {s.assigned[yKey][i] : i \in 1..Len(s.assigned[yKey])} ELSE {}
        NotAvoided(id) == id \notin avoid
        candidates == SelectSeq(ids, NotAvoided)
        pickFrom == IF Len(candidates) >= AssignCount THEN candidates ELSE ids
    IN  PickLoop(<<>>, pickFrom)

\* ensureDailyAssignments with the loop's outcome `sel` supplied by the caller
ensureDailyAssignments(s, sel) ==
    LET day == s.today.day
    IN  IF HasAssignment(s, day) THEN s
        ELSE [s EXCEPT !.assigned = Put(@, day, sel)]

\* variant of maybeResetWeeklyBoss: a new week keeps the completed flag
maybeResetWeeklyBossKeepsCompleted(s, currentDay) ==
    LET ws == IF s.weeklyBoss.weekStartDay # NULL
              THEN s.weeklyBoss.weekStartDay ELSE weekStart(currentDay)
        needReset == weekStart(currentDay) # ws
    IN  IF needReset
        THEN [s EXCEPT !.weeklyBoss.weekStartDay = weekStart(currentDay),
                       !.weeklyBoss.goals =
                           [i \in 1..Len(@) |-> [@[i] EXCEPT !.tally = 0]]]
        ELSE s

\* variant of maybeResetWeeklyBoss: the new week starts with the old tallies
maybeResetWeeklyBossKeepsTallies(s, currentDay) ==
    LET ws == IF s.weeklyBoss.weekStartDay # NULL
              THEN s.weeklyBoss.weekStartDay ELSE weekStart(currentDay)
        needReset == weekStart(currentDay) # ws
    IN  IF needReset
        THEN [s EXCEPT !.weeklyBoss.weekStartDay = weekStart(currentDay),
                       !.weeklyBoss.completed = FALSE]
        ELSE s

maybeResetWeeklyBoss(s, currentDay) ==
    LET ws == IF s.weeklyBoss.weekStartDay # NULL
              THEN s.weeklyBoss.weekStartDay ELSE weekStart(currentDay)
        needReset == weekStart(currentDay) # ws
    IN  IF needReset
        THEN [s EXCEPT !.weeklyBoss.weekStartDay = weekStart(currentDay),
                       !.weeklyBoss.completed = FALSE,
                       !.weeklyBoss.goals =
                           [i \in 1..Len(@) |-> [@[i] EXCEPT !.tally = 0]]]
        ELSE s

\* variant of closeDay: a day without completions leaves the streak standing
closeDayKeepsStreak(s) ==
    LET prevDay == s.today.day
        hadCompletion == prevDay \in DOMAIN s.progress
                         /\ s.progress[prevDay].completions > 0
    IN  IF hadCompletion
        THEN [s EXCEPT !.streak.current = @ + 1,
                       !.profile.bestStreak = Max(@, s.streak.current + 1)]
        ELSE s

\* variant of closeDay: bestStreak follows the current streak down
closeDayBestFollows(s) ==
    LET prevDay == s.today.day
        hadCompletion == prevDay \in DOMAIN s.progress
                         /\ s.progress[prevDay].completions > 0
    IN  IF hadCompletion
        THEN [s EXCEPT !.streak.current = @ + 1,
                       !.profile.bestStreak = s.streak.current + 1]
        ELSE [s EXCEPT !.streak.current = 0, !.profile.bestStreak = 0]

\* the streak update of a day change (196-204)
closeDay(s) ==
    LET prevDay == s.today.day
        hadCompletion == prevDay \in DOMAIN s.progress
                         /\ s.progress[prevDay].completions > 0
    IN  IF hadCompletion
        THEN [s EXCEPT !.streak.current = @ + 1,
                       !.profile.bestStreak = Max(@, s.streak.current + 1)]
        ELSE [s EXCEPT !.streak.current = 0]

\* variant of ensureGameDayRoll: every call closes the day
ensureGameDayRollAlways(s, gd, sel) ==
    LET s1 == IF s.weeklyBoss.weekStartDay = NULL
              THEN [s EXCEPT !.weeklyBoss.weekStartDay = weekStart(gd)] ELSE s
    IN  IF s1.today.day = NULL
        THEN maybeResetWeeklyBoss(
                 ensureDailyAssignments([s1 EXCEPT !.today.day = gd], sel), gd)
        ELSE LET s2 == closeDay(s1)
                 s3 == [s2 EXCEPT !.today = [day |-> gd, points |-> 0,
                                             doneCounts |-> EmptyMap,
                                             challengeDone |-> {},
                                             lastMilestone |-> 0]]
             IN  maybeResetWeeklyBoss(ensureDailyAssignments(s3, sel), gd)

\* variant of ensureGameDayRoll: the done set of the challenges survives the
\* day change
ensureGameDayRollKeepsDone(s, gd, sel) ==
    LET s1 == IF s.weeklyBoss.weekStartDay = NULL
              THEN [s EXCEPT !.weeklyBoss.weekStartDay = weekStart(gd)] ELSE s
    IN  IF s1.today.day = NULL
        THEN maybeResetWeeklyBoss(
                 ensureDailyAssignments([s1 EXCEPT !.today.day = gd], sel), gd)
        ELSE IF gd # s1.today.day
        THEN LET s2 == closeDay(s1)
                 s3 == [s2 EXCEPT !.today = [day |-> gd, points |-> 0,
                                             doneCounts |-> EmptyMap,
                                             challengeDone |-> s2.today.challengeDone,
                                             lastMilestone |-> 0]]
             IN  maybeResetWeeklyBoss(ensureDailyAssignments(s3, sel), gd)
        ELSE s1

\* ensureGameDayRoll with gd = todayLocalDateStringAt(resetHour) and the
\* assignment loop's outcome `sel`
ensureGameDayRoll(s, gd, sel) ==
    LET s1 == IF s.weeklyBoss.weekStartDay = NULL
              THEN [s EXCEPT !.weeklyBoss.weekStartDay = weekStart(gd)] ELSE s
    IN  IF s1.today.day = NULL
        THEN maybeResetWeeklyBoss(
                 ensureDailyAssignments([s1 EXCEPT !.today.day = gd], sel), gd)
        ELSE IF gd # s1.today.day
        THEN LET s2 == closeDay(s1)
                 s3 == [s2 EXCEPT !.today = [day |-> gd, points |-> 0,
                                             doneCounts |-> EmptyMap,
                                             challengeDone |-> {},
                                             lastMilestone |-> 0]]
             IN  maybeResetWeeklyBoss(ensureDailyAssignments(s3, sel), gd)
        ELSE s1

\* the day ensureGameDayRoll is about to assign, and the loop outcomes for it
RollChoices(s, gd) ==
    IF (s.today.day = NULL \/ gd # s.today.day) /\ ~HasAssignment(s, gd)
    THEN AssignChoices(s, gd) ELSE {<<>>}

----------------------------------------------------------------------------
(* Weekly boss tally helpers (app.js 589-621)                              *)

\* variant of tallyWeeklyBossForCompletion: the tally is not capped
tallyWeeklyBossUncapped(s, itemId) ==
    LET goals == s.weeklyBoss.goals
        tallied == [i \in 1..Len(goals) |->
                       IF itemId \in goals[i].linkedTaskIds
                       THEN [goals[i] EXCEPT !.tally = @ + 1]
                       ELSE goals[i]]
        allComplete == \A i \in 1..Len(tallied) : ~(tallied[i].tally < tallied[i].target)
        s1 == [s EXCEPT !.weeklyBoss.goals = tallied]
    IN  IF ~s.weeklyBoss.completed /\ allComplete /\ Len(goals) > 0
        THEN [s1 EXCEPT !.weeklyBoss.completed = TRUE,
                        !.profile.coins = @ + BossBonus]
        ELSE s1

tallyWeeklyBossForCompletion(s, itemId) ==
    LET goals == s.weeklyBoss.goals
        tallied == [i \in 1..Len(goals) |->
                       IF itemId \in goals[i].linkedTaskIds
                       THEN [goals[i] EXCEPT !.tally = Min(@ + 1, goals[i].target)]
                       ELSE goals[i]]
        allComplete == \A i \in 1..Len(tallied) : ~(tallied[i].tally < tallied[i].target)
        s1 == [s EXCEPT !.weeklyBoss.goals = tallied]
    IN  IF ~s.weeklyBoss.completed /\ allComplete /\ Len(goals) > 0
        THEN [s1 EXCEPT !.weeklyBoss.completed = TRUE,
                        !.profile.coins = @ + BossBonus]
        ELSE s1

\* variant of reverseWeeklyBossForCompletion: the bonus is taken back when the
\* boss stops being completed
reverseWeeklyBossReclaimsBonus(s, itemId) ==
    LET goals == s.weeklyBoss.goals
        reversed == [i \in 1..Len(goals) |->
                        IF itemId \in goals[i].linkedTaskIds /\ goals[i].tally > 0
                        THEN [goals[i] EXCEPT !.tally = @ - 1]
                        ELSE goals[i]]
        s1 == [s EXCEPT !.weeklyBoss.goals = reversed]
    IN  IF s.weeklyBoss.completed
           /\ \E i \in 1..Len(reversed) : reversed[i].tally < reversed[i].target
        THEN [s1 EXCEPT !.weeklyBoss.completed = FALSE,
                        !.profile.coins = Max(0, @ - BossBonus)]
        ELSE s1

reverseWeeklyBossForCompletion(s, itemId) ==
    LET goals == s.weeklyBoss.goals
        reversed == [i \in 1..Len(goals) |->
                        IF itemId \in goals[i].linkedTaskIds /\ goals[i].tally > 0
                        THEN [goals[i] EXCEPT !.tally = @ - 1]
                        ELSE goals[i]]
        s1 == [s EXCEPT !.weeklyBoss.goals = reversed]
    IN  IF s.weeklyBoss.completed
           /\ \E i \in 1..Len(reversed) : reversed[i].tally < reversed[i].target
        THEN [s1 EXCEPT !.weeklyBoss.completed = FALSE]
        ELSE s1

----------------------------------------------------------------------------
(* Ledger: grant / spend / reverseGrant (app.js 487-569)                   *)

ZeroBucket == [points |-> 0, completions |-> 0, coinsEarned |-> 0, coinsSpent |-> 0]

ensureProgressBucket(s, day) ==
    IF day \in DOMAIN s.progress THEN s
    ELSE [s EXCEPT !.progress = Put(@, day, ZeroBucket)]

\* the log entry grant appends; `cost` is absent on it
GrantLog(type, id, points, coins, day) ==
    [type |-> type, id |-> id, points |-> points, coins |-> coins,
     cost |-> NULL, day |-> day]

\* the log entry spend appends; `points` and `coins` are absent on it
SpendLog(id, cost, day) ==
    [type |-> "purchase", id |-> id, points |-> NULL, coins |-> NULL,
     cost |-> cost, day |-> day]

\* the milestone the banner of grant announces for a points total (500)
nextMilestoneOf(points) == (points \div MilestoneStep) * MilestoneStep

\* variant of grant: lastMilestone follows today's points, down as well as up
grantMilestoneFollowsPoints(s, points, coins, type, id) ==
    LET day == s.today.day
        s1 == [s EXCEPT !.today.points = @ + points,
                        !.profile.coins = @ + coins]
        s2 == [s1 EXCEPT !.today.lastMilestone = nextMilestoneOf(s1.today.points)]
        s3 == ensureProgressBucket(s2, day)
        s4 == [s3 EXCEPT !.progress[day].points = @ + points,
                         !.progress[day].coinsEarned = @ + coins,
                         !.progress[day].completions = @ + 1]
        s5 == [s4 EXCEPT !.logs = Unshift(@, GrantLog(type, id, points, coins, day))]
    IN  tallyWeeklyBossForCompletion(s5, id)

\* variant of grant: the log entry is pushed at the end of logs
grantAppendsLog(s, points, coins, type, id) ==
    LET day == s.today.day
        s1 == [s EXCEPT !.today.points = @ + points,
                        !.profile.coins = @ + coins]
        nextMilestone == nextMilestoneOf(s1.today.points)
        s2 == IF nextMilestone > 0 /\ nextMilestone > s1.today.lastMilestone
              THEN [s1 EXCEPT !.today.lastMilestone = nextMilestone] ELSE s1
        s3 == ensureProgressBucket(s2, day)
        s4 == [s3 EXCEPT !.progress[day].points = @ + points,
                         !.progress[day].coinsEarned = @ + coins,
                         !.progress[day].completions = @ + 1]
        s5 == [s4 EXCEPT !.logs = Append(@, GrantLog(type, id, points, coins, day))]
    IN  tallyWeeklyBossForCompletion(s5, id)

\* grant up to its saveState (494-519)
grant(s, points, coins, type, id) ==
    LET day == s.today.day
        s1 == [s EXCEPT !.today.points = @ + points,
                        !.profile.coins = @ + coins]
        nextMilestone == nextMilestoneOf(s1.today.points)
        s2 == IF nextMilestone > 0 /\ nextMilestone > s1.today.lastMilestone
              THEN [s1 EXCEPT !.today.lastMilestone = nextMilestone] ELSE s1
        s3 == ensureProgressBucket(s2, day)
        s4 == [s3 EXCEPT !.progress[day].points = @ + points,
                         !.progress[day].coinsEarned = @ + coins,
                         !.progress[day].completions = @ + 1]
        s5 == [s4 EXCEPT !.logs = Unshift(@, GrantLog(type, id, points, coins, day))]
    IN  tallyWeeklyBossForCompletion(s5, id)

\* spend up to its saveState (523-531)
spend(s, cost, id) ==
    LET day == s.today.day
        s1 == [s EXCEPT !.profile.coins = Max(0, @ - cost)]
        s2 == ensureProgressBucket(s1, day)
        s3 == [s2 EXCEPT !.progress[day].coinsSpent = @ + cost]
    IN  [s3 EXCEPT !.logs = Unshift(@, SpendLog(id, cost, day))]

\* variant of reverseGrant: the completion count of the day is left alone
reverseGrantKeepsCompletions(s, pts, coins, kind, id) ==
    LET day == s.today.day
        s1 == [s EXCEPT !.today.points = Max(0, @ - pts),
                        !.profile.coins = Max(0, @ - coins)]
        s2 == ensureProgressBucket(s1, day)
        s3 == [s2 EXCEPT !.progress[day].points = Max(0, @ - pts),
                         !.progress[day].coinsEarned = Max(0, @ - coins)]
        Matches(l) == l.day = day /\ l.type = kind /\ l.id = id
                      /\ l.points = pts /\ l.coins = coins
        i == FirstIndex(s3.logs, Matches)
        s4 == IF i >= 1 THEN [s3 EXCEPT !.logs = RemoveAt(@, i)] ELSE s3
    IN  reverseWeeklyBossForCompletion(s4, id)

\* variant of reverseGrant: no floor at 0
reverseGrantUnfloored(s, pts, coins, kind, id) ==
    LET day == s.today.day
        s1 == [s EXCEPT !.today.points = @ - pts,
                        !.profile.coins = @ - coins]
        s2 == ensureProgressBucket(s1, day)
        s3 == [s2 EXCEPT !.progress[day].points = @ - pts,
                         !.progress[day].coinsEarned = @ - coins,
                         !.progress[day].completions = @ - 1]
        Matches(l) == l.day = day /\ l.type = kind /\ l.id = id
                      /\ l.points = pts /\ l.coins = coins
        i == FirstIndex(s3.logs, Matches)
        s4 == IF i >= 1 THEN [s3 EXCEPT !.logs = RemoveAt(@, i)] ELSE s3
    IN  reverseWeeklyBossForCompletion(s4, id)

\* variant of reverseGrant: the oldest matching entry is removed
reverseGrantRemovesOldest(s, pts, coins, kind, id) ==
    LET day == s.today.day
        s1 == [s EXCEPT !.today.points = Max(0, @ - pts),
                        !.profile.coins = Max(0, @ - coins)]
        s2 == ensureProgressBucket(s1, day)
        s3 == [s2 EXCEPT !.progress[day].points = Max(0, @ - pts),
                         !.progress[day].coinsEarned = Max(0, @ - coins),
                         !.progress[day].completions = Max(0, @ - 1)]
        matching == {j \in 1..Len(s3.logs) :
                        /\ s3.logs[j].day = day /\ s3.logs[j].type = kind
                        /\ s3.logs[j].id = id /\ s3.logs[j].points = pts
                        /\ s3.logs[j].coins = coins}
        s4 == IF matching # {}
              THEN [s3 EXCEPT !.logs =
                       RemoveAt(@, CHOOSE j \in matching : \A k \in matching : k <= j)]
              ELSE s3
    IN  reverseWeeklyBossForCompletion(s4, id)

\* reverseGrant up to its saveState (552-567)
reverseGrant(s, pts, coins, kind, id) ==
    LET day == s.today.day
        s1 == [s EXCEPT !.today.points = Max(0, @ - pts),
                        !.profile.coins = Max(0, @ - coins)]
        s2 == ensureProgressBucket(s1, day)
        s3 == [s2 EXCEPT !.progress[day].points = Max(0, @ - pts),
                         !.progress[day].coinsEarned = Max(0, @ - coins),
                         !.progress[day].completions = Max(0, @ - 1)]
        Matches(l) == l.day = day /\ l.type = kind /\ l.id = id
                      /\ l.points = pts /\ l.coins = coins
        i == FirstIndex(s3.logs, Matches)
        s4 == IF i >= 1 THEN [s3 EXCEPT !.logs = RemoveAt(@, i)] ELSE s3
    IN  reverseWeeklyBossForCompletion(s4, id)

----------------------------------------------------------------------------
(* Inputs of the model: what the user types and clicks                     *)

\* ids uuid() hands out, in order, per catalog
TaskIds == <<"t1", "t2", "t3">>
ChallengeIds == <<"c1", "c2", "c3", "c4", "c5", "c6", "c7", "c8", "c9">>
ShopIds == <<"s1">>

\* the Add / Edit form of a task or challenge: points, coins ("" is NULL), cap
ItemForms ==
    [name : {"task"}, points : {DefaultPoints, 2 * DefaultPoints}, coins : {NULL},
     cap : {2}]
AddForm == [name |-> "task", points |-> DefaultPoints, coins |-> NULL, cap |-> 2]

\* the Add form of a shop item: cost and cooldown days
ShopForm == [cost |-> 5, cooldownDays |-> 1]

\* values typed into #inpResetHour
ResetHourInputs == {DefaultResetHour, 16}

\* timezones the browser may run in (hours east of UTC)
TimeZones == {0, 9}

\* hours the clock may advance between two events
TickHours == {24}
StartHour == localMidnight(Jan1) + 12
LastHour == localMidnight(Jan1 + MaxDays) + 12

clampInt(n, lo, hi) == Max(lo, Min(hi, n))

----------------------------------------------------------------------------
(* Rendering: the buttons on screen and what their closures hold           *)

\* renderHome (270-319): the tiles of today's assignment and, through
\* renderCompletedFeed (400-440), the Undo chips of today's completions
renderHome(s, v) ==
    LET day == s.today.day
        assigned == Get(s.assigned, day, <<>>)
        Known(id) == id \in ItemIds(s.challenges)
        IsCompletionToday(l) == l.day = day /\ l.type \in {"task", "challenge"}
    IN  [v EXCEPT !.tiles = SelectSeq(assigned, Known),
                  !.feed = SelectSeq(s.logs, IsCompletionToday)]

\* variant of blocked: the cooldown lasts one day longer
blockedOneDayMore(cooldownDays, lastBoughtDay, today) ==
    LET cooldown == IF cooldownDays = NULL THEN 0 ELSE cooldownDays
        last == lastBoughtDay
    IN  cooldown > 0 /\ last # NULL /\ dayDiff(today, last) <= cooldown

\* the cooldown test of the shop drawer (725-727)
blocked(cooldownDays, lastBoughtDay, today) ==
    LET cooldown == IF cooldownDays = NULL THEN 0 ELSE cooldownDays
        last == lastBoughtDay
    IN  cooldown > 0 /\ last # NULL /\ dayDiff(today, last) <= cooldown - 1

\* renderShopDrawer (704-744): a Buy button per active item, disabled when blocked
renderShopDrawer(s, v) ==
    LET IsActive(x) == x.active
        items == SelectSeq(s.shop, IsActive)
    IN  [v EXCEPT !.shop = [id \in ItemIds(items) |->
                               LET x == ItemById(items, id)
                               IN  blocked(x.cooldownDays, x.lastBoughtDay, s.today.day)]]

\* the page before anything is rendered
EmptyView == [tiles |-> <<>>, feed |-> <<>>, shop |-> EmptyMap]

----------------------------------------------------------------------------
(* Event handlers, each up to its first outstanding await                  *)

\* quickAddTask (688-693) for the task with id t
quickAddTask(s, t) ==
    LET item == ItemById(s.tasks, t)
        cap == item.perDayCap
        count == Get(s.today.doneCounts, t, 0)
    IN  IF count >= cap THEN s
        ELSE grant([s EXCEPT !.today.doneCounts = Put(@, t, count + 1)],
                   item.points, item.coinsEarned, "task", t)

\* toggleChallenge (535-548) for the challenge with id c, after its rollover
toggleChallenge(s, c) ==
    LET ch == ItemById(s.challenges, c)
        done == c \in s.today.challengeDone
        pts == ch.points
        coins == ch.coinsEarned
    IN  IF ~done
        THEN grant([s EXCEPT !.today.challengeDone = @ \cup {c}],
                   pts, coins, "challenge", c)
        ELSE reverseGrant([s EXCEPT !.today.challengeDone = @ \ {c}],
                          pts, coins, "challenge", c)

\* variant of undoLogEntry: the day of the entry is not checked
undoLogEntryAnyDay(s, log) ==
    IF log.type = "task"
    THEN LET count == Get(s.today.doneCounts, log.id, 0)
             s1 == IF count > 0
                   THEN [s EXCEPT !.today.doneCounts = Put(@, log.id, count - 1)]
                   ELSE s
         IN  reverseGrant(s1, log.points, log.coins, "task", log.id)
    ELSE IF log.type = "challenge"
    THEN reverseGrant([s EXCEPT !.today.challengeDone = @ \ {log.id}],
                      log.points, log.coins, "challenge", log.id)
    ELSE s

\* undoLogEntry (571-582) for a log object held by an Undo chip
undoLogEntry(s, log) ==
    IF log.day # s.today.day THEN s
    ELSE IF log.type = "task"
    THEN LET count == Get(s.today.doneCounts, log.id, 0)
             s1 == IF count > 0
                   THEN [s EXCEPT !.today.doneCounts = Put(@, log.id, count - 1)]
                   ELSE s
         IN  reverseGrant(s1, log.points, log.coins, "task", log.id)
    ELSE IF log.type = "challenge"
    THEN reverseGrant([s EXCEPT !.today.challengeDone = @ \ {log.id}],
                      log.points, log.coins, "challenge", log.id)
    ELSE s

\* variant of buyClick: the balance is not checked
buyClickUnchecked(s, id) ==
    LET item == ItemById(s.shop, id)
    IN  spend(s, item.cost, id)

\* the Buy click handler up to the await of spend (733-735)
buyClick(s, id) ==
    LET item == ItemById(s.shop, id)
        have == s.profile.coins
    IN  IF have < item.cost THEN s ELSE spend(s, item.cost, id)

\* the Buy click handler after spend returned (736)
buyAfterSpend(s, id) ==
    LET SetLast(x) == [x EXCEPT !.lastBoughtDay = s.today.day]
    IN  [s EXCEPT !.shop = UpdateItem(@, id, SetLast)]

\* openItemModal called without an existing item
NoItem == ""

\* the OK handler of the item modal for a task or challenge (818-831)
saveItem(s, kind, existing, form) ==
    LET points == clampInt(form.points, 1, 999)
        coinsEarned == IF form.coins = NULL THEN points ELSE clampInt(form.coins, 0, 999)
        Fill(x) == IF kind = "task"
                   THEN [x EXCEPT !.name = form.name, !.points = points,
                                  !.coinsEarned = coinsEarned,
                                  !.perDayCap = clampInt(form.cap, 1, 10)]
                   ELSE [x EXCEPT !.name = form.name, !.points = points,
                                  !.coinsEarned = coinsEarned]
        fresh == IF kind = "task"
                 THEN [id |-> TaskIds[Len(s.tasks) + 1], active |-> TRUE,
                       name |-> "", points |-> 0, coinsEarned |-> 0, perDayCap |-> 0]
                 ELSE [id |-> ChallengeIds[Len(s.challenges) + 1], active |-> TRUE,
                       name |-> "", points |-> 0, coinsEarned |-> 0]
    IN  IF existing # NoItem
        THEN IF kind = "task"
             THEN [s EXCEPT !.tasks = UpdateItem(@, existing, Fill)]
             ELSE [s EXCEPT !.challenges = UpdateItem(@, existing, Fill)]
        ELSE IF kind = "task"
             THEN [s EXCEPT !.tasks = Append(@, Fill(fresh))]
             ELSE [s EXCEPT !.challenges = Append(@, Fill(fresh))]

\* the OK handler of the item modal for a new shop item (843-851)
saveShopItem(s, form) ==
    [s EXCEPT !.shop = Append(@,
        [id |-> ShopIds[Len(s.shop) + 1], active |-> TRUE,
         cost |-> clampInt(form.cost, 1, 999),
         cooldownDays |-> IF form.cooldownDays = NULL THEN NULL
                          ELSE clampInt(form.cooldownDays, 0, 30),
         lastBoughtDay |-> NULL])]

\* the Archive / Activate button of a Manage row (780-784), for a challenge
toggleActive(s, id) ==
    LET Flip(x) == [x EXCEPT !.active = ~x.active]
    IN  [s EXCEPT !.challenges = UpdateItem(@, id, Flip)]

\* onSettingChanged up to its saveState (976-977)
onSettingChanged(s, hour) ==
    [s EXCEPT !.settings.resetHour = clampInt(hour, 0, 23)]

\* the goals of a boss template (917-960), linked to tasks by lower-cased name
\* (the tasks of this model are named in lower case)
TemplateGoals(s, kind) ==
    LET Named(n) == {s.tasks[i].id : i \in {j \in 1..Len(s.tasks) :
                        s.tasks[j].name = n /\ \A k \in (j + 1)..Len(s.tasks) :
                            s.tasks[k].name # n}}
        Goal(label, target, name) ==
            [label |-> label, target |-> target, tally |-> 0,
             linkedTaskIds |-> Named(name)]
    IN  IF kind = "momentum"
        THEN << Goal("Talk to 10 people", 10, "talk to someone"),
                Goal("Focused work 90 min", 2, "45-min study"),
                Goal("Workouts x3", 3, "full workout") >>
        ELSE IF kind = "social"
        THEN << Goal("Meaningful chats x10", 10, "talk to someone"),
                Goal("Call family x2", 2, "call parents") >>
        ELSE <<>>

\* applyBossTemplate up to its saveState (912-965)
applyBossTemplate(s, kind) ==
    LET day == IF s.today.day # NULL THEN s.today.day
               ELSE todayLocalDateStringAt(s.settings.resetHour)
    IN  [s EXCEPT !.weeklyBoss = [weekStartDay |-> weekStart(day),
                                  goals |-> TemplateGoals(s, kind),
                                  completed |-> FALSE]]

----------------------------------------------------------------------------
(* History variables                                                       *)

RtNone ==
    [phase |-> "none", points |-> 0, coins |-> 0, hadBucket |-> FALSE,
     bucket |-> ZeroBucket, logLen |-> 0, day |-> NULL, kind |-> "", id |-> "",
     pts |-> 0, cns |-> 0, bonus |-> FALSE]

\* a grant was just made from `pre`, giving `post`
RtGranted(pre, post, pts, cns, kind, id) ==
    [phase |-> "granted", points |-> pre.today.points, coins |-> pre.profile.coins,
     hadBucket |-> pre.today.day \in DOMAIN pre.progress,
     bucket |-> Get(pre.progress, pre.today.day, ZeroBucket),
     logLen |-> Len(pre.logs), day |-> pre.today.day, kind |-> kind, id |-> id,
     pts |-> pts, cns |-> cns,
     bonus |-> post.weeklyBoss.completed /\ ~pre.weeklyBoss.completed]

\* a reverseGrant is made from `pre`: it closes the pair when it is the
\* matching reverse of the grant just before it, on the same day
RtReversed(r, pre, pts, cns, kind, id) ==
    IF r.phase = "granted" /\ r.day = pre.today.day /\ r.kind = kind /\ r.id = id
       /\ r.pts = pts /\ r.cns = cns
    THEN [r EXCEPT !.phase = "reversed"] ELSE RtNone

\* no import has ended since the last change of the state
ImpNone ==
    [outcome |-> "none", kind |-> "", state |-> NullDoc, durable |-> NullDoc,
     migrated |-> NullDoc]

\* the history variables after a step that changes the state to `post`
History(post, rtNew) ==
    LET weekChanged == post.weeklyBoss.weekStartDay # state.weeklyBoss.weekStartDay
        bonus == post.weeklyBoss.completed
                 /\ (weekChanged \/ ~state.weeklyBoss.completed)
    IN  /\ post.streak.current <= MaxStreak
        /\ maxStreak' = Max(maxStreak, post.streak.current)
        /\ bonuses' = (IF weekChanged THEN 0 ELSE bonuses) + (IF bonus THEN 1 ELSE 0)
        /\ rt' = rtNew
        /\ imp' = ImpNone

----------------------------------------------------------------------------
(* Actions                                                                 *)

gd == todayLocalDateStringAt(state.settings.resetHour)

\* saveState (db.js 51-55): the clone is taken at the call, the write is
\* outstanding until SaveDone; `cont` is the code after the await
Save(post, kind, id) ==
    pending' = Append(pending, [snap |-> post, cont |-> [kind |-> kind, id |-> id]])

\* a handler that mutated the state to `post` and awaits its saveState
Handled(post, kind, id, rtNew) ==
    /\ Len(pending) < MaxPending
    /\ state' = post
    /\ Save(post, kind, id)
    /\ History(post, rtNew)
    /\ UNCHANGED <<now, tz, durable, view>>

\* wall-clock time passes
Tick ==
    /\ \E h \in TickHours : now + h <= LastHour /\ now' = now + h
    /\ UNCHANGED <<state, tz, durable, pending, view, maxStreak, bonuses, rt, imp>>

\* the page is loaded again: init (142-176) up to its saveState
AppInit ==
    /\ pending = <<>>
    /\ LET loaded == migrateToV2(durable)
           day == todayLocalDateStringAt(loaded.settings.resetHour)
       IN  \E sel \in RollChoices(loaded, day) :
               LET post == ensureGameDayRoll(loaded, day, sel)
               IN  /\ state' = post
                   /\ Save(post, "init", "")
                   /\ view' = renderHome(post, EmptyView)
                   /\ History(post, RtNone)
    /\ UNCHANGED <<now, tz, durable>>

\* Edit in Manage: the OK handler of the modal on an existing item
EditItem(kind, id, form) ==
    /\ id \in ItemIds(IF kind = "task" THEN state.tasks ELSE state.challenges)
    /\ saveItem(state, kind, id, form) # state
    /\ Handled(saveItem(state, kind, id, form), "saveItem", "", RtNone)

\* a click on a task of the Quick Add drawer
QuickAddTask(t) ==
    /\ t \in ItemIds(state.tasks)
    /\ ItemById(state.tasks, t).active
    /\ LET post == quickAddTask(state, t)
           item == ItemById(state.tasks, t)
       IN  IF post = state THEN UNCHANGED vars
           ELSE Handled(post, "quickAddTask", t,
                        RtGranted(state, post, item.points, item.coinsEarned, "task", t))

\* a click on the Do / Undo button of a challenge tile
ToggleChallenge(c) ==
    /\ \E i \in 1..Len(view.tiles) : view.tiles[i] = c
    /\ \E sel \in RollChoices(state, gd) :
         LET rolled == ensureGameDayRoll(state, gd, sel)
             post == toggleChallenge(rolled, c)
             ch == ItemById(rolled.challenges, c)
         IN  Handled(post, "toggleChallenge", c,
                     IF c \in rolled.today.challengeDone
                     THEN RtReversed(IF rolled = state THEN rt ELSE RtNone, rolled,
                                     ch.points, ch.coinsEarned, "challenge", c)
                     ELSE RtGranted(rolled, post, ch.points, ch.coinsEarned,
                                    "challenge", c))

\* a click on an Undo chip of the Completed Today feed
UndoLogEntry(i) ==
    /\ i \in 1..Len(view.feed)
    /\ LET log == view.feed[i]
           post == undoLogEntry(state, log)
       IN  IF log.day # state.today.day THEN UNCHANGED vars
           ELSE Handled(post, "undoLogEntry", log.id,
                        RtReversed(rt, state, log.points, log.coins, log.type, log.id))

\* the coins pill: openShopDrawer (697-700)
OpenShopDrawer ==
    /\ view' = renderShopDrawer(state, view)
    /\ UNCHANGED <<state, now, tz, durable, pending, maxStreak, bonuses, rt, imp>>

\* a click on an enabled Buy button of the shop drawer
Buy(id) ==
    /\ id \in DOMAIN view.shop
    /\ ~view.shop[id]
    /\ LET post == buyClick(state, id)
       IN  IF post = state THEN UNCHANGED vars
           ELSE Handled(post, "buy", id, RtNone)

\* a change of the reset hour in Settings
SettingChanged(hour) ==
    /\ hour # state.settings.resetHour
    /\ Handled(onSettingChanged(state, hour), "onSettingChanged", "", RtNone)

\* a click on a boss template button in Manage
ApplyBossTemplate(kind) ==
    Handled(applyBossTemplate(state, kind), "applyBossTemplate", "", RtNone)

\* importJSON (db.js 74-82): `if (!obj.version) obj.version = 1`
withVersion(obj) ==
    IF Has(obj, "version") THEN obj
    ELSE [k \in DOMAIN obj \cup {"version"} |-> IF k = "version" THEN 1 ELSE obj[k]]

\* a JSON array, and what JSON.parse(JSON.stringify(x)) keeps of an array
\* that was given a version property
ArrayDoc == [array |-> TRUE]
jsonClone(obj) == IF Has(obj, "array") THEN ArrayDoc ELSE obj

\* the keys of the v2 schema (67-92)
SchemaKeys ==
    {"version", "settings", "profile", "today", "streak", "tasks", "challenges",
     "shop", "assigned", "progress", "logs", "weeklyBoss"}

Conforms(doc) ==
    /\ SchemaKeys \subseteq DOMAIN doc
    /\ "lastMilestone" \in DOMAIN doc.today

\* ensureGameDayRoll throws a TypeError in its first statement (182):
\* state.settings is undefined
RollThrows(doc) == ~Has(doc, "settings")

\* onImport (997-1012) with the text of the chosen file, up to the saveState
\* awaited inside importJSON.  JSON.parse or the object test of importJSON
\* (76-77) throws for a text that is not JSON or is a scalar or null.
Import(text) ==
    /\ Len(pending) < MaxPending
    /\ IF text.kind \notin {"array", "object"}
       THEN /\ imp' = [outcome |-> "failed", kind |-> text.kind, state |-> state,
                       durable |-> durable, migrated |-> NullDoc]
            /\ UNCHANGED <<state, now, tz, durable, pending, view, maxStreak,
                           bonuses, rt>>
       ELSE LET obj == withVersion(text.obj)
            IN  /\ Conforms(migrateToV2(obj)) \/ RollThrows(migrateToV2(obj))
                /\ pending' = Append(pending,
                       [snap |-> jsonClone(obj),
                        cont |-> [kind |-> "import", id |-> ""],
                        obj |-> obj, text |-> text.kind,
                        pre |-> [state |-> state, durable |-> durable]])
                /\ imp' = ImpNone
                /\ UNCHANGED <<state, now, tz, durable, view, maxStreak, bonuses, rt>>

\* onImport after importJSON returned (1003-1009): migrate, roll, render; a
\* throw of ensureGameDayRoll is caught after `state` was assigned
ImportResumes(h) ==
    LET migrated == migrateToV2(h.obj)
        done(outcome) == [outcome |-> outcome, kind |-> h.text, state |-> h.pre.state,
                          durable |-> h.pre.durable, migrated |-> migrated]
    IN  /\ pending' = Tail(pending)
        /\ rt' = RtNone
        /\ bonuses' = bonuses
        /\ IF RollThrows(migrated)
           THEN /\ state' = migrated
                /\ imp' = done("failed")
                /\ UNCHANGED <<view, maxStreak>>
           ELSE LET day == todayLocalDateStringAt(migrated.settings.resetHour)
                IN  \E sel \in RollChoices(migrated, day) :
                        LET post == ensureGameDayRoll(migrated, day, sel)
                        IN  /\ post.streak.current <= MaxStreak
                            /\ state' = post
                            /\ imp' = done("imported")
                            /\ view' = renderHome(post, view)
                            /\ maxStreak' = Max(maxStreak, post.streak.current)

\* the oldest outstanding write completes and the code after its await runs
SaveDone ==
    /\ pending # <<>>
    /\ LET h == Head(pending)
           k == h.cont.kind
       IN  /\ durable' = h.snap
           /\ IF k = "buy"
              THEN \* 736-737: lastBoughtDay, then the second saveState
                   LET post == buyAfterSpend(state, h.cont.id)
                   IN  /\ state' = post
                       /\ pending' = Append(Tail(pending),
                              [snap |-> post, cont |-> [kind |-> "bought", id |-> h.cont.id]])
                       /\ History(post, RtNone)
                       /\ UNCHANGED view
              ELSE IF k = "onSettingChanged"
              THEN \* 980-981: ensureGameDayRoll and renderAll, after the save
                   \E sel \in RollChoices(state, gd) :
                       LET post == ensureGameDayRoll(state, gd, sel)
                       IN  /\ state' = post
                           /\ pending' = Tail(pending)
                           /\ History(post, IF post = state THEN rt ELSE RtNone)
                           /\ view' = renderHome(post, view)
              ELSE IF k = "import"
              THEN ImportResumes(h)
              ELSE /\ pending' = Tail(pending)
                   /\ view' = IF k = "bought" THEN renderShopDrawer(state, view)
                              ELSE IF k = "init" THEN view
                              ELSE renderHome(state, view)
                   /\ UNCHANGED <<state, maxStreak, bonuses, rt, imp>>
    /\ UNCHANGED <<now, tz>>

\* init (142-176) on an empty store
FreshInstall ==
    ensureGameDayRoll(defaultStateV2, todayLocalDateStringAt(DefaultResetHour), <<>>)

\* one task, one challenge and one shop item added in Manage on the first day
WithCatalog(s) ==
    saveShopItem(saveItem(saveItem(s, "task", NoItem, AddForm),
                          "challenge", NoItem, AddForm), ShopForm)

\* the page after the first session: init() ran on an empty store, the user
\* filled the catalog, and every write completed
Init ==
    /\ now = StartHour
    /\ tz \in TimeZones
    /\ state = WithCatalog(FreshInstall)
    /\ durable = state
    /\ pending = <<>>
    /\ view = renderHome(state, EmptyView)
    /\ maxStreak = 0
    /\ bonuses = 0
    /\ rt = RtNone
    /\ imp = ImpNone

Idle == pending = <<>>

\* the run may still append a log entry
Room == Len(state.logs) < MaxLogs

\* One handler at a time (no click while a write is outstanding): the clock,
\* reloads, completions, undos and purchases.
Next ==
    \/ Tick
    \/ AppInit
    \/ Idle /\ Room /\ QuickAddTask("t1")
    \/ Idle /\ Room /\ ToggleChallenge("c1")
    \/ \E i \in 1..MaxLogs : Idle /\ UndoLogEntry(i)
    \/ Idle /\ OpenShopDrawer
    \/ Idle /\ Room /\ Buy("s1")
    \/ SaveDone

Spec == Init /\ [][Next]_vars

\* One handler at a time, with edits of the challenge between its clicks.
NextEdit ==
    \/ Tick
    \/ AppInit
    \/ \E f \in ItemForms : Idle /\ EditItem("challenge", "c1", f)
    \/ Idle /\ Room /\ ToggleChallenge("c1")
    \/ \E i \in 1..MaxLogs : Idle /\ UndoLogEntry(i)
    \/ SaveDone

SpecEdit == Init /\ [][NextEdit]_vars

\* Clicks while writes are outstanding, within one day.
NextAsync ==
    \/ Room /\ QuickAddTask("t1")
    \/ \E i \in 1..MaxLogs : UndoLogEntry(i)
    \/ OpenShopDrawer
    \/ Room /\ Buy("s1")
    \/ SaveDone

SpecAsync == Init /\ [][NextAsync]_vars

----------------------------------------------------------------------------
(* The weekly boss within one day: the "social" template on two tasks      *)

TalkForm == [name |-> "talk to someone", points |-> DefaultPoints, coins |-> NULL,
             cap |-> 10]
CallForm == [name |-> "call parents", points |-> DefaultPoints, coins |-> NULL,
             cap |-> 2]

\* log entries appended in one run of SpecBoss: a boss of 12 completions
BossLogs == 12
\* boss bonuses one run of SpecBoss may grant
MaxBonuses == 2

\* the first session: two tasks added in Manage, then the "social" template
InitBoss ==
    /\ now = StartHour
    /\ tz \in TimeZones
    /\ state = applyBossTemplate(
                   saveItem(saveItem(FreshInstall, "task", NoItem, TalkForm),
                            "task", NoItem, CallForm), "social")
    /\ durable = state
    /\ pending = <<>>
    /\ view = renderHome(state, EmptyView)
    /\ maxStreak = 0
    /\ bonuses = 0
    /\ rt = RtNone
    /\ imp = ImpNone

BossRoom == Len(state.logs) < BossLogs /\ bonuses < MaxBonuses

NextBoss ==
    \/ \E t \in {"t1", "t2"} : Idle /\ BossRoom /\ QuickAddTask(t)
    \/ \E i \in 1..BossLogs : Idle /\ UndoLogEntry(i)
    \/ SaveDone

SpecBoss == InitBoss /\ [][NextBoss]_vars

----------------------------------------------------------------------------
(* The cooldown test on its inputs                                         *)

\* largest cooldownDays and day distance drawn for the cooldown test
MaxCooldown == 4

\* a clock reading at which the game day is `day` under the default reset hour
NoonOf(day) == localMidnight(day + (IF tz > 0 THEN 1 ELSE 0)) + 12

\* a shop item with any cooldown and last purchase day, on any later day
InitCooldown ==
    /\ tz \in TimeZones
    /\ \E c \in {NULL} \cup 0..MaxCooldown,
          last \in {NULL} \cup Jan1..(Jan1 + MaxCooldown),
          day \in Jan1..(Jan1 + MaxCooldown) :
          /\ last # NULL => day >= last
          /\ now = NoonOf(day)
          /\ LET Worn(x) == [x EXCEPT !.cooldownDays = c, !.lastBoughtDay = last]
                 s == WithCatalog(FreshInstall)
             IN  state = [s EXCEPT !.shop = UpdateItem(@, "s1", Worn),
                                   !.today.day = day]
    /\ durable = state
    /\ pending = <<>>
    /\ view = EmptyView
    /\ maxStreak = 0
    /\ bonuses = 0
    /\ rt = RtNone
    /\ imp = ImpNone

NextCooldown == OpenShopDrawer

SpecCooldown == InitCooldown /\ [][NextCooldown]_vars

----------------------------------------------------------------------------
(* Daily assignment: a catalog of up to MaxPool active challenges and one  *)
(* archived one, assigned yesterday, rolled over today, with challenges     *)
(* added in between.                                                        *)

\* the largest number of active challenges
MaxPool == 6

\* the active challenges of s, as a set of ids
ActiveIds(s) ==
    {s.challenges[i].id : i \in {j \in 1..Len(s.challenges) : s.challenges[j].active}}

\* the ids of a stored assignment, as a set
Assigned(s, day) ==
    {s.assigned[day][i] : i \in 1..Len(s.assigned[day])}

\* n challenges added in Manage, the oldest one archived afterwards
RECURSIVE WithChallenges(_, _)
WithChallenges(s, n) ==
    IF n = 0 THEN s
    ELSE saveItem(WithChallenges(s, n - 1), "challenge", NoItem, AddForm)

\* Add in Manage: the OK handler of the modal for a new challenge
AddChallenge ==
    /\ Len(state.challenges) <= MaxPool
    /\ Handled(saveItem(state, "challenge", NoItem, AddForm), "saveItem", "", RtNone)

\* the page as it is opened the day after its last use: yesterday's rollover
\* assigned from a catalog of n active challenges and an archived one
InitAssign ==
    /\ now = StartHour + 24
    /\ tz \in TimeZones
    /\ \E n \in 0..MaxPool :
         LET catalog == toggleActive(WithChallenges(defaultStateV2, n + 1), "c1")
             yesterday == todayLocalDateStringAt(DefaultResetHour) - 1
         IN  \E sel \in RollChoices(catalog, yesterday) :
                 state = ensureGameDayRoll(catalog, yesterday, sel)
    /\ durable = state
    /\ pending = <<>>
    /\ view = renderHome(state, EmptyView)
    /\ maxStreak = 0
    /\ bonuses = 0
    /\ rt = RtNone
    /\ imp = ImpNone

NextAssign ==
    \/ AppInit
    \/ Idle /\ AddChallenge
    \/ SaveDone

SpecAssign == InitAssign /\ [][NextAssign]_vars

----------------------------------------------------------------------------
(* The weekly boss across a day and a week change: every goal of the       *)
(* "social" boss is one completion short of its target; the page is either *)
(* still open on that day or found open the day after.                     *)

\* completions the run may add to those of InitWeek
WeekSlack == 3

\* n clicks on task t in the Quick Add drawer
RECURSIVE Clicks(_, _, _)
Clicks(s, t, n) ==
    IF n = 0 THEN s ELSE quickAddTask(Clicks(s, t, n - 1), t)

\* the first session: the two tasks, the "social" template, and every goal
\* brought to one completion below its target
AlmostDefeated ==
    LET s == applyBossTemplate(
                 saveItem(saveItem(FreshInstall, "task", NoItem, TalkForm),
                          "task", NoItem, CallForm), "social")
    IN  Clicks(Clicks(s, "t1", s.weeklyBoss.goals[1].target - 1),
               "t2", s.weeklyBoss.goals[2].target - 1)

InitWeek ==
    /\ tz \in TimeZones
    /\ now = StartHour
    /\ state = AlmostDefeated
    /\ durable = state
    /\ pending = <<>>
    /\ view = renderHome(state, EmptyView)
    /\ maxStreak = 0
    /\ bonuses = 0
    /\ rt = RtNone
    /\ imp = ImpNone

\* the completions InitWeek starts with
WeekBase ==
    SumSeq([i \in 1..Len(state.weeklyBoss.goals) |->
               state.weeklyBoss.goals[i].target - 1])

WeekRoom == Len(state.logs) < WeekBase + WeekSlack /\ bonuses < MaxBonuses

\* the night passes with the page left open
Overnight ==
    /\ now = StartHour
    /\ now' = now + 24
    /\ UNCHANGED <<state, tz, durable, pending, view, maxStreak, bonuses, rt, imp>>

NextWeek ==
    \/ Overnight
    \/ AppInit
    \/ \E t \in {"t1", "t2"} : Idle /\ WeekRoom /\ QuickAddTask(t)
    \/ \E i \in 1..WeekSlack : Idle /\ Len(state.logs) >= WeekBase /\ UndoLogEntry(i)
    \/ SaveDone

SpecWeek == InitWeek /\ [][NextWeek]_vars

----------------------------------------------------------------------------
(* Milestones: three tasks worth 95, 10 and 5 points, completed and undone *)
(* over several days.                                                      *)

\* the fields of the item modal for the three tasks
MilestoneForms ==
    << [name |-> "task", points |-> MilestoneStep - 5, coins |-> NULL, cap |-> 1],
       [name |-> "task", points |-> DefaultPoints, coins |-> NULL, cap |-> 2],
       [name |-> "task", points |-> 5, coins |-> NULL, cap |-> 1] >>

InitMilestone ==
    /\ tz \in TimeZones
    /\ now = StartHour
    /\ state = saveItem(saveItem(saveItem(FreshInstall,
                             "task", NoItem, MilestoneForms[1]),
                             "task", NoItem, MilestoneForms[2]),
                             "task", NoItem, MilestoneForms[3])
    /\ durable = state
    /\ pending = <<>>
    /\ view = renderHome(state, EmptyView)
    /\ maxStreak = 0
    /\ bonuses = 0
    /\ rt = RtNone
    /\ imp = ImpNone

NextMilestone ==
    \/ Tick
    \/ AppInit
    \/ \E t \in {"t1", "t2", "t3"} : Idle /\ Room /\ QuickAddTask(t)
    \/ \E i \in 1..MaxLogs : Idle /\ UndoLogEntry(i)
    \/ SaveDone

SpecMilestone == InitMilestone /\ [][NextMilestone]_vars

----------------------------------------------------------------------------
(* Import: files of every JSON kind chosen in Settings, among them v1      *)
(* exports, the current export and a document that only reports version 2. *)

\* a v1 export (unnamed/part_000 47-61)
V1Doc ==
    [ version    |-> 1,
      settings   |-> [resetHour |-> 16],
      profile    |-> [coins |-> 7, bestStreak |-> 1],
      today      |-> [day |-> Jan1, points |-> 0, doneCounts |-> EmptyMap,
                      challengeDone |-> {}],
      streak     |-> [current |-> 1],
      tasks      |-> WithCatalog(defaultStateV2).tasks,
      challenges |-> <<>>,
      shop       |-> <<>>,
      assigned   |-> EmptyMap,
      progress   |-> EmptyMap,
      logs       |-> <<>> ]

\* objects a chosen file may hold: {}, a v1 export, a v1 object with some of
\* its fields, the stored document as exported, {"version": 2}
ImportDocs ==
    { EmptyMap,
      V1Doc,
      [profile |-> [coins |-> 7, bestStreak |-> 1], today |-> [day |-> Jan1]],
      IF Has(durable, "array") THEN EmptyMap ELSE durable,
      [version |-> 2] }

ImportTexts ==
    [kind : {"invalid", "null", "number", "string", "boolean"}, obj : {NullDoc}]
    \cup {[kind |-> "array", obj |-> ArrayDoc]}
    \cup [kind : {"object"}, obj : ImportDocs]

\* the handlers of the page work on a state of the v2 schema
Usable == Conforms(state) /\ Conforms(migrateToV2(durable))

NextImport ==
    \/ \E text \in ImportTexts : Idle /\ Import(text)
    \/ Idle /\ Usable /\ Room /\ QuickAddTask("t1")
    \/ Idle /\ Usable /\ AppInit
    \/ Tick
    \/ SaveDone

SpecImport == Init /\ [][NextImport]_vars

\* The Settings page in use between completions and reloads: the reset hour is
\* changed while the clock runs.
NextSettings ==
    \/ Tick
    \/ AppInit
    \/ \E hour \in ResetHourInputs : Idle /\ SettingChanged(hour)
    \/ Idle /\ Room /\ QuickAddTask("t1")
    \/ SaveDone

SpecSettings == Init /\ [][NextSettings]_vars

\* Undo chips clicked while the write of the previous click is outstanding:
\* the feed on the page is the one rendered before that click.
NextStale ==
    \/ Tick
    \/ AppInit
    \/ Idle /\ Room /\ QuickAddTask("t1")
    \/ Idle /\ (Room \/ "c1" \in state.today.challengeDone) /\ ToggleChallenge("c1")
    \/ \E i \in 1..MaxLogs : UndoLogEntry(i)
    \/ SaveDone

SpecStale == Init /\ [][NextStale]_vars

\* The first load of the page on an empty store: state is the object init
\* builds (migrateToV2(null)) before its rollover; challenges are added in
\* Manage and done over the following days.
InitFirstRun ==
    /\ now = StartHour
    /\ tz \in TimeZones
    /\ state = defaultStateV2
    /\ durable = NullDoc
    /\ pending = <<>>
    /\ view = EmptyView
    /\ maxStreak = 0
    /\ bonuses = 0
    /\ rt = RtNone
    /\ imp = ImpNone

NextFirstRun ==
    \/ Tick
    \/ AppInit
    \/ Idle /\ state.today.day # NULL /\ Len(state.challenges) < AssignCount - 1
          /\ AddChallenge
    \/ \E c \in {"c1", "c2"} : Idle /\ Room /\ ToggleChallenge(c)
    \/ SaveDone

SpecFirstRun == InitFirstRun /\ [][NextFirstRun]_vars

\* The boss one completion per goal from defeat, within one day: completions,
\* undos of the newest entries, and the template applied again.
NextTemplate ==
    \/ \E t \in {"t1", "t2"} : Idle /\ WeekRoom /\ QuickAddTask(t)
    \/ \E i \in 1..WeekSlack : Idle /\ Len(state.logs) >= WeekBase /\ UndoLogEntry(i)
    \/ Idle /\ (\E i \in 1..Len(state.weeklyBoss.goals) :
                    state.weeklyBoss.goals[i].tally > 0)
            /\ ApplyBossTemplate("social")
    \/ SaveDone

SpecTemplate == InitWeek /\ [][NextTemplate]_vars

\* the fields of the item modal for a task worth more than two milestones and
\* for a task worth half a milestone
LeapForms ==
    << [name |-> "task", points |-> 2 * MilestoneStep + 50, coins |-> NULL, cap |-> 1],
       [name |-> "task", points |-> 50, coins |-> NULL, cap |-> 2] >>

InitLeap ==
    /\ tz \in TimeZones
    /\ now = StartHour
    /\ state = saveItem(saveItem(FreshInstall, "task", NoItem, LeapForms[1]),
                        "task", NoItem, LeapForms[2])
    /\ durable = state
    /\ pending = <<>>
    /\ view = renderHome(state, EmptyView)
    /\ maxStreak = 0
    /\ bonuses = 0
    /\ rt = RtNone
    /\ imp = ImpNone

\* Completions of the two tasks, undos, reloads and the clock.
NextLeap ==
    \/ Tick
    \/ AppInit
    \/ \E t \in {"t1", "t2"} : Idle /\ Room /\ QuickAddTask(t)
    \/ \E i \in 1..MaxLogs : Idle /\ UndoLogEntry(i)
    \/ SaveDone

SpecLeap == InitLeap /\ [][NextLeap]_vars

----------------------------------------------------------------------------
(* The ledger within one day: the page on the day after the catalog was    *)
(* made, with the challenge assigned; completions, undos, edits of the     *)
(* challenge and purchases.                                                *)

\* the fields of the item modal when the challenge is edited
LedgerForms ==
    { [name |-> "task", points |-> DefaultPoints, coins |-> NULL, cap |-> 2],
      [name |-> "task", points |-> 2 * DefaultPoints, coins |-> 0, cap |-> 2] }

InitLedger ==
    /\ tz \in TimeZones
    /\ now = StartHour + 24
    /\ LET day == todayLocalDateStringAt(DefaultResetHour)
           first == WithCatalog(ensureGameDayRoll(defaultStateV2, day - 1, <<>>))
       IN  \E sel \in RollChoices(first, day) :
               state = ensureGameDayRoll(first, day, sel)
    /\ durable = state
    /\ pending = <<>>
    /\ view = renderHome(state, EmptyView)
    /\ maxStreak = 0
    /\ bonuses = 0
    /\ rt = RtNone
    /\ imp = ImpNone

NextLedger ==
    \/ Idle /\ Room /\ QuickAddTask("t1")
    \/ Idle /\ (Room \/ "c1" \in state.today.challengeDone) /\ ToggleChallenge("c1")
    \/ \E i \in 1..MaxLogs : Idle /\ UndoLogEntry(i)
    \/ \E f \in LedgerForms : Idle /\ EditItem("challenge", "c1", f)
    \/ Idle /\ OpenShopDrawer
    \/ Idle /\ Room /\ Buy("s1")
    \/ SaveDone

SpecLedger == InitLedger /\ [][NextLedger]_vars

----------------------------------------------------------------------------
(* Properties                                                              *)

\* the day that is ending had at least one completion
HadCompletion(s) ==
    s.today.day \in DOMAIN s.progress /\ s.progress[s.today.day].completions > 0

\* C1: every rollover that leaves a non-null today.day for another day sets
\* streak.current to its previous value plus 1 when the day that ended has a
\* progress bucket with completions > 0, and to 0 otherwise.
C1_StreakOnRollover ==
    [][ (state.today.day # NULL /\ state'.today.day # state.today.day)
        => state'.streak.current =
               IF HadCompletion(state) THEN state.streak.current + 1 ELSE 0 ]_vars

\* a streak was earned by one rollover and lost again by a later one
C1_Witness ==
    state.streak.current = 0 /\ state.profile.bestStreak >= 1

\* C2: profile.bestStreak is the largest value streak.current has held so far,
\* hence never below streak.current.
C2_BestStreakIsMax ==
    /\ state.profile.bestStreak = maxStreak
    /\ state.profile.bestStreak >= state.streak.current

\* the best streak outlives the streak that set it
C2_Witness ==
    state.profile.bestStreak >= 1 /\ state.streak.current < state.profile.bestStreak

\* C3 as stated: after a grant and its immediate matching reverseGrant on the
\* same day, today.points, profile.coins and progress[today.day] equal their
\* pre-grant values (an absent bucket is absent again) and logs has its
\* pre-grant length, the boss bonus path included.
C3_RoundTrip ==
    rt.phase = "reversed" =>
        /\ state.today.points = rt.points
        /\ state.profile.coins = rt.coins
        /\ IF rt.hadBucket
           THEN state.today.day \in DOMAIN state.progress
                /\ state.progress[state.today.day] = rt.bucket
           ELSE state.today.day \notin DOMAIN state.progress
        /\ Len(state.logs) = rt.logLen

\* C3 amended: after a grant and its immediate matching reverseGrant on the
\* same day, today.points and the length of logs are as before the grant,
\* progress[today.day] is its pre-grant value (the all-zero bucket when there
\* was none), and profile.coins is its pre-grant value, plus the boss bonus
\* when the grant completed the weekly boss.
C3_RoundTripAmended ==
    rt.phase = "reversed" =>
        /\ state.today.points = rt.points
        /\ state.profile.coins = rt.coins + (IF rt.bonus THEN BossBonus ELSE 0)
        /\ state.today.day \in DOMAIN state.progress
        /\ state.progress[state.today.day] = rt.bucket
        /\ Len(state.logs) = rt.logLen

\* a grant that completed the weekly boss was reversed at once
C3_Witness ==
    rt.phase = "reversed" /\ rt.bonus

\* C4: within one week the boss bonus is granted at most once, also when an
\* undo drops a goal below its target and a later completion restores it.
C4_BonusOncePerWeek ==
    bonuses <= 1

\* Array.prototype.filter(...).reduce: the sum of f over the entries with P
SumWhere(seq, P(_), f(_)) ==
    SumSeq([i \in 1..Len(seq) |-> IF P(seq[i]) THEN f(seq[i]) ELSE 0])

\* C5: every progress bucket equals the totals of the log entries of its day:
\* completions, points and coinsEarned over the task and challenge entries,
\* coinsSpent over the purchase entries.
C5_ProgressMatchesLogs ==
    \A d \in DOMAIN state.progress :
        LET Done(l) == l.day = d /\ l.type \in {"task", "challenge"}
            Bought(l) == l.day = d /\ l.type = "purchase"
            One(l) == 1
            Points(l) == l.points
            Coins(l) == l.coins
            Cost(l) == l.cost
        IN  /\ state.progress[d].completions = SumWhere(state.logs, Done, One)
            /\ state.progress[d].points = SumWhere(state.logs, Done, Points)
            /\ state.progress[d].coinsEarned = SumWhere(state.logs, Done, Coins)
            /\ state.progress[d].coinsSpent = SumWhere(state.logs, Bought, Cost)

\* C6: a step that undoes the completion of a challenge (its done marker is
\* cleared within the day) removes exactly the log entry of that completion
\* and subtracts exactly the points and coins that entry records.
C6_UndoReversesLoggedAmounts ==
    [][ \A c \in state.today.challengeDone :
          (c \notin state'.today.challengeDone
           /\ state'.today.day = state.today.day)
          => \E i \in 1..Len(state.logs) :
                 /\ state.logs[i].type = "challenge"
                 /\ state.logs[i].id = c
                 /\ state.logs[i].day = state.today.day
                 /\ state'.logs = RemoveAt(state.logs, i)
                 /\ state'.today.points = state.today.points - state.logs[i].points
                 /\ state'.profile.coins = state.profile.coins - state.logs[i].coins
      ]_vars

\* C7: a step that appends a log entry gives it the day the clock shows at
\* that moment.
C7_LogDayIsGameDay ==
    [][ Len(state'.logs) > Len(state.logs)
        => Head(state'.logs).day = todayLocalDateStringAt(state.settings.resetHour)
      ]_vars

\* C8: a handler that mutates the state starts only when no saveState write
\* is outstanding.
C8_NoMutationWhileSaving ==
    [][ (Len(pending') = Len(pending) + 1 /\ state' # state)
        => pending = <<>> ]_vars

\* C9: two purchases of the same item with cooldownDays = c > 0 are never
\* logged fewer than c game days apart.
C9_CooldownRespected ==
    \A i, j \in 1..Len(state.logs) :
        (i < j /\ state.logs[i].type = "purchase" /\ state.logs[j].type = "purchase"
         /\ state.logs[i].id = state.logs[j].id)
        => LET x == ItemById(state.shop, state.logs[i].id)
           IN  (x.cooldownDays # NULL /\ x.cooldownDays > 0)
               => state.logs[i].day - state.logs[j].day >= x.cooldownDays

\* C10: a rendered Buy button is disabled exactly when cooldownDays > 0,
\* lastBoughtDay is set and today.day - lastBoughtDay <= cooldownDays - 1; with
\* cooldownDays = 3 and lastBoughtDay = 2024-01-01 it is disabled on
\* 2024-01-01 .. 2024-01-03 and enabled from 2024-01-04 on.
C10_CooldownPredicate ==
    \A id \in DOMAIN view.shop :
        LET x == ItemById(state.shop, id)
            c == IF x.cooldownDays = NULL THEN 0 ELSE x.cooldownDays
            last == x.lastBoughtDay
            day == state.today.day
        IN  /\ view.shop[id] <=> (c > 0 /\ last # NULL /\ day - last <= c - 1)
            /\ (c = 3 /\ last = Jan1 /\ day >= Jan1)
               => (view.shop[id] <=> day \in Jan1..(Jan1 + 2))

\* three days after the purchase the button of a 3-day item is enabled
C10_Witness ==
    /\ "s1" \in DOMAIN view.shop
    /\ ItemById(state.shop, "s1").cooldownDays = 3
    /\ ItemById(state.shop, "s1").lastBoughtDay = Jan1
    /\ state.today.day = Jan1 + 3
    /\ ~view.shop["s1"]

\* a step in which ensureDailyAssignments stored a new assignment
NewlyAssigned ==
    /\ state'.today.day # NULL
    /\ state'.today.day \in DOMAIN state'.assigned
    /\ state'.assigned # state.assigned

\* C11: every newly stored assignment holds exactly min(3, n) pairwise
\* distinct ids, all of active challenges, n being the number of active
\* challenges.
C11_AssignmentSize ==
    [][ NewlyAssigned =>
          LET day == state'.today.day
              sel == state'.assigned[day]
          IN  /\ Len(sel) = Min(3, Cardinality(ActiveIds(state)))
              /\ Cardinality(Assigned(state', day)) = Len(sel)
              /\ Assigned(state', day) \subseteq ActiveIds(state)
      ]_vars

\* three of at least four active challenges were assigned today, the catalog
\* holding an archived challenge as well
C11_Witness ==
    /\ state.today.day = todayLocalDateStringAt(state.settings.resetHour)
    /\ state.today.day \in DOMAIN state.assigned
    /\ Len(state.assigned[state.today.day]) = 3
    /\ Cardinality(ActiveIds(state)) >= 4
    /\ \E i \in 1..Len(state.challenges) : ~state.challenges[i].active

\* C12: when a new assignment is stored for a day with at least 6 active
\* challenges and the day before has an assignment, the two share no id; when
\* fewer than 3 active ids remain outside yesterday's assignment, the new one
\* is drawn from the whole active pool and still has 3 entries.
C12_AvoidsYesterday ==
    [][ (NewlyAssigned /\ (state'.today.day - 1) \in DOMAIN state.assigned)
        => LET day == state'.today.day
               ids == ActiveIds(state)
               yest == Assigned(state, day - 1)
           IN  /\ Cardinality(ids) >= 6
                   => Assigned(state', day) \cap yest = {}
               /\ (Cardinality(ids \ yest) < 3 /\ Cardinality(ids) >= 3)
                   => (Len(state'.assigned[day]) = 3
                       /\ Assigned(state', day) \subseteq ids)
      ]_vars

\* C13: once the rollover has run, today's assignment has no duplicates and
\* has exactly 3 entries, or fewer only while fewer than 3 challenges are
\* active.
C13_AssignmentFull ==
    state.today.day # NULL =>
        /\ state.today.day \in DOMAIN state.assigned
        /\ Cardinality(Assigned(state, state.today.day))
               = Len(state.assigned[state.today.day])
        /\ \/ Len(state.assigned[state.today.day]) = 3
           \/ /\ Len(state.assigned[state.today.day]) < 3
              /\ Cardinality(ActiveIds(state)) < 3

\* C14: weeklyBoss.completed is true exactly when there is at least one goal
\* and every goal's tally equals its target.
C14_CompletedIffAllGoals ==
    state.weeklyBoss.completed
    <=> /\ Len(state.weeklyBoss.goals) > 0
        /\ \A i \in 1..Len(state.weeklyBoss.goals) :
               state.weeklyBoss.goals[i].tally = state.weeklyBoss.goals[i].target

\* the boss is defeated
C14_Witness ==
    state.weeklyBoss.completed /\ Len(state.weeklyBoss.goals) = 2

\* C15: every goal keeps 0 <= tally <= target; a step that logs a completion
\* raises the tally of each goal linked to the item by exactly 1, or leaves it
\* alone when it already equals the target, and leaves every other tally
\* unchanged.
C15_TallyCapped ==
    /\ [](\A i \in 1..Len(state.weeklyBoss.goals) :
             /\ 0 <= state.weeklyBoss.goals[i].tally
             /\ state.weeklyBoss.goals[i].tally <= state.weeklyBoss.goals[i].target)
    /\ [][ (Len(state'.logs) = Len(state.logs) + 1
            /\ Head(state'.logs).type \in {"task", "challenge"})
           => \A i \in 1..Len(state.weeklyBoss.goals) :
                  LET g == state.weeklyBoss.goals[i]
                  IN  state'.weeklyBoss.goals[i].tally =
                          IF Head(state'.logs).id \in g.linkedTaskIds
                             /\ g.tally # g.target
                          THEN g.tally + 1 ELSE g.tally
         ]_vars

\* a linked task was completed once more after its goal had reached the target
C15_Witness ==
    /\ Len(state.weeklyBoss.goals) = 2
    /\ state.weeklyBoss.goals[1].tally = state.weeklyBoss.goals[1].target
    /\ Cardinality({i \in 1..Len(state.logs) : state.logs[i].id = "t1"})
           > state.weeklyBoss.goals[1].target

\* C16: within a game day today.lastMilestone never decreases, and it changes
\* only in a step that raises it to floor(today.points / 100) * 100, so no
\* milestone is announced twice, also not after an undo dropped the points
\* below it; from points 95 and lastMilestone 0 a grant of 10 announces 100,
\* and the following grant of 5 announces nothing.
C16_MilestoneOncePerDay ==
    [][ state'.today.day = state.today.day =>
          /\ state'.today.lastMilestone >= state.today.lastMilestone
          /\ state'.today.lastMilestone # state.today.lastMilestone
                => /\ state'.today.points > state.today.points
                   /\ state'.today.lastMilestone
                          = (state'.today.points \div 100) * 100
          /\ (state.today.points = 95 /\ state.today.lastMilestone = 0
               /\ state'.today.points = 105)
                => state'.today.lastMilestone = 100
          /\ (state.today.points = 105 /\ state.today.lastMilestone = 100
               /\ state'.today.points = 110)
                => state'.today.lastMilestone = 100
      ]_vars

\* an undo took today's points back below the milestone already announced
C16_Witness ==
    /\ state.today.lastMilestone = 100
    /\ state.today.points < 100
    /\ state.today.points > 0

\* C17: for null and for every document handed to migrateToV2 by an import
\* (an array, {}, v1 objects with all or some fields, objects of version >= 2),
\* migrating the result again gives the same result.
C17_MigrateIdempotent ==
    /\ migrateToV2(migrateToV2(NullDoc)) = migrateToV2(NullDoc)
    /\ imp.migrated # NullDoc => migrateToV2(imp.migrated) = imp.migrated

\* a v1 object was migrated
C17_Witness ==
    /\ imp.outcome = "imported"
    /\ imp.kind = "object"
    /\ imp.migrated.settings.resetHour = V1Doc.settings.resetHour
    /\ imp.migrated.version = 2

\* C18: for every document handed to migrateToV2 the result has every field
\* of the v2 schema, today.lastMilestone included.
C18_MigrateConforms ==
    imp.migrated # NullDoc => Conforms(imp.migrated)

\* C19: an import of a text that is not JSON, or whose top-level value is
\* null, a number, a string, a boolean or an array, ends as 'Import failed'
\* with the in-memory and the stored state as they were before it.
C19_NonObjectRejected ==
    (imp.outcome # "none" /\ imp.kind # "object")
    => /\ imp.outcome = "failed"
       /\ state = imp.state
       /\ durable = imp.durable

\* C20: whenever an import ends as 'Import failed', the in-memory and the
\* stored state are as they were before it.
C20_FailedImportChangesNothing ==
    imp.outcome = "failed" => (state = imp.state /\ durable = imp.durable)

\* C22: a Buy click on an item that costs more than profile.coins leaves the
\* state as it is; while no item is affordable no purchase is logged and no
\* save of a purchase is issued.
C22_InsufficientFunds ==
    /\ [](\A id \in DOMAIN view.shop :
             ItemById(state.shop, id).cost > state.profile.coins
             => buyClick(state, id) = state)
    /\ [][ (\A i \in 1..Len(state.shop) : state.shop[i].cost > state.profile.coins)
           => /\ Len(state'.logs) > Len(state.logs)
                   => Head(state'.logs).type # "purchase"
              /\ Len(pending') > Len(pending)
                   => pending'[Len(pending')].cont.kind # "buy"
         ]_vars

\* the drawer shows an enabled Buy button for an item the balance does not
\* afford, on a day that already has completions in the log
C22_Witness ==
    /\ "s1" \in DOMAIN view.shop
    /\ ~view.shop["s1"]
    /\ ItemById(state.shop, "s1").cost > state.profile.coins
    /\ Len(state.logs) >= 1

\* C24: profile.coins, today.points and every field of every progress bucket
\* are never negative.
C24_NeverNegative ==
    /\ state.profile.coins >= 0
    /\ state.today.points >= 0
    /\ \A d \in DOMAIN state.progress :
           /\ state.progress[d].points >= 0
           /\ state.progress[d].completions >= 0
           /\ state.progress[d].coinsEarned >= 0
           /\ state.progress[d].coinsSpent >= 0

\* a reverse larger than what was left hit the floor: a completion is still
\* logged for today while points, coins and the bucket are at 0
C24_Witness ==
    /\ \E i \in 1..Len(state.logs) :
           state.logs[i].day = state.today.day /\ state.logs[i].type = "challenge"
    /\ state.today.points = 0
    /\ state.profile.coins = 0
    /\ state.today.day \in DOMAIN state.progress
    /\ state.progress[state.today.day].points = 0

\* a step of the day in which a completion was reversed
ReverseStep ==
    /\ state'.today.day = state.today.day
    /\ \/ Len(state'.logs) < Len(state.logs)
       \/ state'.today.challengeDone # state.today.challengeDone
             /\ state'.today.challengeDone \subseteq state.today.challengeDone
       \/ \E t \in DOMAIN state.today.doneCounts :
             state'.today.doneCounts[t] < state.today.doneCounts[t]

\* C29: a reverse of (pts, coins, kind, id) removes from logs the entry of
\* lowest index with today's day and that kind, id, points and coins, and
\* nothing else; when there is none, logs is unchanged; in both cases
\* today.points, profile.coins and the day's bucket are decremented, floored
\* at 0.
C29_ReverseRemovesMostRecent ==
    [][ ReverseStep =>
          \E kind \in {"task", "challenge"} :
          \E id \in ItemIds(state.tasks) \cup ItemIds(state.challenges) :
          \E amounts \in
                {<<state.logs[i].points, state.logs[i].coins>> : i \in 1..Len(state.logs)}
                \cup {<<state.challenges[i].points, state.challenges[i].coinsEarned>> :
                         i \in 1..Len(state.challenges)} :
              LET day == state.today.day
                  pts == amounts[1]
                  cns == amounts[2]
                  B == Get(state.progress, day, ZeroBucket)
                  M == {i \in 1..Len(state.logs) :
                          /\ state.logs[i].day = day /\ state.logs[i].type = kind
                          /\ state.logs[i].id = id /\ state.logs[i].points = pts
                          /\ state.logs[i].coins = cns}
              IN  /\ state'.logs =
                         IF M = {} THEN state.logs
                         ELSE RemoveAt(state.logs,
                                       CHOOSE i \in M : \A j \in M : i <= j)
                  /\ state'.today.points = Max(0, state.today.points - pts)
                  /\ state'.profile.coins = Max(0, state.profile.coins - cns)
                  /\ state'.progress[day].points = Max(0, B.points - pts)
                  /\ state'.progress[day].coinsEarned = Max(0, B.coinsEarned - cns)
                  /\ state'.progress[day].completions = Max(0, B.completions - 1)
      ]_vars

\* a reverse matched no entry: the challenge is not done, its completion is
\* still logged, and the bucket counts fewer completions than the log holds
C29_Witness ==
    /\ state.today.day \in DOMAIN state.progress
    /\ "c1" \notin state.today.challengeDone
    /\ Cardinality({i \in 1..Len(state.logs) :
                        state.logs[i].day = state.today.day
                        /\ state.logs[i].type \in {"task", "challenge"}})
           > state.progress[state.today.day].completions

\* C30: a step that logs a completion of an item adds the item's points to
\* today.points and to the day's bucket, its coins to the bucket's coinsEarned
\* and 1 to its completions, and puts the entry {type, id, points, coins,
\* day = today.day} at index 0 of logs, the earlier entries following unchanged.
C30_GrantEffects ==
    [][ (/\ Len(state'.logs) = Len(state.logs) + 1
         /\ Head(state'.logs).type \in {"task", "challenge"}
         /\ state'.today.day = state.today.day)
        => LET h == Head(state'.logs)
               day == state.today.day
               B == Get(state.progress, day, ZeroBucket)
               item == IF h.type = "task" THEN ItemById(state.tasks, h.id)
                       ELSE ItemById(state.challenges, h.id)
           IN  /\ h.points = item.points
               /\ h.coins = item.coinsEarned
               /\ h.day = day
               /\ Tail(state'.logs) = state.logs
               /\ state'.today.points = state.today.points + h.points
               /\ state'.progress[day].points = B.points + h.points
               /\ state'.progress[day].coinsEarned = B.coinsEarned + h.coins
               /\ state'.progress[day].completions = B.completions + 1
               /\ state'.progress[day].coinsSpent = B.coinsSpent
      ]_vars

\* a completion worth 0 coins was granted on top of earlier entries
C30_Witness ==
    /\ Len(state.logs) >= 2
    /\ Head(state.logs).type = "challenge"
    /\ Head(state.logs).coins = 0
    /\ Head(state.logs).points > 0

\* C21: once every write of the finished actions has completed, the durable
\* copy equals the in-memory state.
C21_DurableMatchesState ==
    pending = <<>> => durable = state

\* C25: today.day never moves to an earlier day, and a step taken while the
\* clock's game day is earlier than today.day changes neither streak.current
\* nor profile.bestStreak.
C25_RollOnlyForward ==
    [][ state.today.day # NULL
        => /\ state'.today.day >= state.today.day
           /\ gd < state.today.day
                => /\ state'.streak.current = state.streak.current
                   /\ state'.profile.bestStreak = state.profile.bestStreak
      ]_vars

\* C23: undoLogEntry on an entry of the feed whose day is not today.day returns
\* the state as it is, and while every entry of the feed is of another day no
\* save of an undo is issued.
C23_CrossDayUndoRejected ==
    /\ [](\A i \in 1..Len(view.feed) :
             view.feed[i].day # state.today.day
             => undoLogEntry(state, view.feed[i]) = state)
    /\ [][ (\A i \in 1..Len(view.feed) : view.feed[i].day # state.today.day)
           => (Len(pending') > Len(pending)
                 => pending'[Len(pending')].cont.kind # "undoLogEntry")
         ]_vars

\* the feed still shows an entry of the day before: the click that rolled the
\* day has not rendered yet, and the day before has its bucket
C23_Witness ==
    \E i \in 1..Len(view.feed) :
        /\ view.feed[i].day # state.today.day
        /\ view.feed[i].day \in DOMAIN state.progress
        /\ state.progress[view.feed[i].day].completions > 0

\* C26: in a state whose today.day is the clock's game day ensureGameDayRoll
\* returns the state as it is, and in any state with a today.day a second call
\* at the same clock value returns what the first call returned.
C26_SameDayRollIsNoOp ==
    state.today.day # NULL
    => \A sel \in RollChoices(state, gd) :
          LET once == ensureGameDayRoll(state, gd, sel)
          IN  /\ state.today.day = gd => once = state
              /\ \A again \in RollChoices(once, gd) :
                     ensureGameDayRoll(once, gd, again) = once

\* toggleChallenge ran its rollover on a day that already had a completion:
\* the challenge is done and logged on top of an entry of the same game day
C26_Witness ==
    /\ state.today.day = gd
    /\ "c1" \in state.today.challengeDone
    /\ Len(state.logs) >= 2
    /\ state.logs[1].type = "challenge"
    /\ state.logs[1].day = gd
    /\ state.logs[2].day = gd

\* C27: a step that only changes the day sets today to the clock's game day
\* with points 0, no done counts, no done challenges and lastMilestone 0, and
\* leaves profile.coins, logs, the existing progress buckets, tasks,
\* challenges, shop and settings as they were; the step that gives today.day
\* its first value sets it to the clock's game day with an assignment for it
\* and leaves streak.current and bestStreak as they were.
C27_RolloverFrame ==
    [][ /\ (state.today.day # NULL /\ state'.today.day # state.today.day
                                   /\ state'.logs = state.logs)
           => /\ state'.today = [day |-> gd, points |-> 0, doneCounts |-> EmptyMap,
                                 challengeDone |-> {}, lastMilestone |-> 0]
              /\ state'.profile.coins = state.profile.coins
              /\ \A d \in DOMAIN state.progress :
                     d \in DOMAIN state'.progress
                     /\ state'.progress[d] = state.progress[d]
              /\ state'.tasks = state.tasks
              /\ state'.challenges = state.challenges
              /\ state'.shop = state.shop
              /\ state'.settings = state.settings
        /\ (state.today.day = NULL /\ state'.today.day # NULL)
           => /\ state'.today.day = gd
              /\ gd \in DOMAIN state'.assigned
              /\ state'.streak.current = state.streak.current
              /\ state'.profile.bestStreak = state.profile.bestStreak
      ]_vars

\* the day was rolled after a day with a done challenge: today is empty and
\* the newest log entry and its bucket are of an earlier day
C27_Witness ==
    /\ state.today.day # NULL
    /\ state.today.points = 0
    /\ state.today.challengeDone = {}
    /\ Len(state.logs) >= 1
    /\ Head(state.logs).day # state.today.day
    /\ Head(state.logs).day \in DOMAIN state.progress
    /\ state.progress[Head(state.logs).day].completions > 0
    /\ state.profile.coins > 0

\* C28: a step that changes the day to one whose weekStart is not
\* weeklyBoss.weekStartDay sets weekStartDay to that weekStart, completed to
\* false and every tally to 0, each goal otherwise as it was; a step that
\* changes the day within the week leaves weeklyBoss as it was.
C28_WeekReset ==
    [][ (state.today.day # NULL /\ state'.today.day # state.today.day)
        => LET wb == state.weeklyBoss
               ws == weekStart(state'.today.day)
           IN  IF ws # wb.weekStartDay
               THEN /\ state'.weeklyBoss.weekStartDay = ws
                    /\ state'.weeklyBoss.completed = FALSE
                    /\ state'.weeklyBoss.goals =
                           [i \in 1..Len(wb.goals) |-> [wb.goals[i] EXCEPT !.tally = 0]]
               ELSE state'.weeklyBoss = wb
      ]_vars

\* a new week began after the boss was defeated: the bonus is in the balance,
\* the completions of both goals are in the log, every tally is 0
C28_Witness ==
    /\ Len(state.weeklyBoss.goals) = 2
    /\ ~state.weeklyBoss.completed
    /\ \A i \in 1..Len(state.weeklyBoss.goals) : state.weeklyBoss.goals[i].tally = 0
    /\ state.weeklyBoss.weekStartDay = weekStart(state.today.day)
    /\ Len(state.logs) >= WeekBase + 2
    /\ state.profile.coins >= BossBonus

\* C31: a step that removes a completion from the log lowers by 1 the tally of
\* each goal that links the item and has a tally above 0, clears
\* weeklyBoss.completed when it was set and some goal is then below its
\* target, and takes from profile.coins the coins of the entry only; after a
\* grant that completed the boss and its reverse, profile.coins is BossBonus
\* above its value before the grant.
C31_ReverseKeepsBonus ==
    /\ []((rt.phase = "reversed" /\ rt.bonus)
            => state.profile.coins = rt.coins + BossBonus)
    /\ [][ (Len(state'.logs) = Len(state.logs) - 1
            /\ state'.today.day = state.today.day)
           => \E k \in 1..Len(state.logs) :
                 LET goals == state.weeklyBoss.goals
                     after == state'.weeklyBoss.goals
                     id == state.logs[k].id
                 IN  /\ state'.logs = RemoveAt(state.logs, k)
                     /\ Len(after) = Len(goals)
                     /\ \A i \in 1..Len(goals) :
                            after[i] =
                                IF id \in goals[i].linkedTaskIds /\ goals[i].tally > 0
                                THEN [goals[i] EXCEPT !.tally = @ - 1]
                                ELSE goals[i]
                     /\ state'.weeklyBoss.completed =
                            (state.weeklyBoss.completed
                             /\ \A i \in 1..Len(after) : after[i].tally >= after[i].target)
                     /\ state'.profile.coins =
                            Max(0, state.profile.coins - state.logs[k].coins)
         ]_vars

\* the completion that defeated the boss was reversed at once: the boss stands
\* again and the bonus is in the balance
C31_Witness ==
    /\ rt.phase = "reversed"
    /\ rt.bonus
    /\ ~state.weeklyBoss.completed
    /\ state.profile.coins >= BossBonus

\* C32: for every v1 document a file or the store may hold, migrateToV2 gives
\* a state with the document's profile, streak, tasks, challenges, shop,
\* assigned, progress, logs, settings.resetHour and today.day, points,
\* doneCounts and challengeDone wherever the document has them, with
\* weeklyBoss = {weekStart(current game day), no goals, not completed} and
\* today.lastMilestone = 0; for null it gives defaultStateV2.
C32_MigrateCarriesOver ==
    /\ migrateToV2(NullDoc) = defaultStateV2
    /\ \A doc \in ImportDocs \cup {withVersion(d) : d \in ImportDocs} :
          (~Has(doc, "version") \/ doc.version < 2)
          => LET m == migrateToV2(doc)
             IN  /\ \A k \in {"profile", "streak", "tasks", "challenges", "shop",
                               "assigned", "progress", "logs"} :
                        Has(doc, k) => m[k] = doc[k]
                 /\ (Has(doc, "settings") /\ Has(doc.settings, "resetHour"))
                        => m.settings.resetHour = doc.settings.resetHour
                 /\ Has(doc, "today")
                        => \A k \in {"day", "points", "doneCounts", "challengeDone"} :
                               Has(doc.today, k) => m.today[k] = doc.today[k]
                 /\ m.today.lastMilestone = 0
                 /\ m.weeklyBoss =
                        [weekStartDay |->
                             weekStart(todayLocalDateStringAt(m.settings.resetHour)),
                         goals |-> <<>>, completed |-> FALSE]
                 /\ m.version = 2

\* the v1 export was imported: its balance, streak, day and tasks are in the
\* migrated state, under the reset hour of the export
C32_Witness ==
    /\ imp.outcome = "imported"
    /\ imp.migrated.profile = V1Doc.profile
    /\ imp.migrated.streak = V1Doc.streak
    /\ imp.migrated.today.day = V1Doc.today.day
    /\ imp.migrated.tasks = V1Doc.tasks
    /\ imp.migrated.today.lastMilestone = 0
    /\ imp.migrated.weeklyBoss.goals = <<>>

\* C33: within a game day, a step that brings today.points to or above a
\* multiple m of 100 not announced before (m above today.lastMilestone)
\* announces m: it is the value the step gives today.lastMilestone, so no
\* multiple is passed over.
C33_EveryMultipleAnnounced ==
    [][ state'.today.day = state.today.day
        => \A n \in 1..10 :
              LET m == n * MilestoneStep
              IN  (state.today.lastMilestone < m /\ m <= state'.today.points)
                  => state'.today.lastMilestone = m
      ]_vars

\* C34: for every reset hour 0..23 todayLocalDateStringAt(hour) is the local
\* calendar day of the instant `hour` hours before now.
C34_LocalDateKey ==
    \A hour \in 0..23 : todayLocalDateStringAt(hour) = (now - hour) \div 24

\* the task log entries for task t with day = today.day
TaskLogsToday(t) ==
    Cardinality({i \in 1..Len(state.logs) :
                    /\ state.logs[i].type = "task"
                    /\ state.logs[i].id = t
                    /\ state.logs[i].day = state.today.day})

\* C35: for every task the log holds at most perDayCap entries of the task
\* with day = today.day, and quickAddTask on a task whose doneCounts is at the
\* cap returns the state as it is.
C35_CapRespected ==
    \A i \in 1..Len(state.tasks) :
        LET t == state.tasks[i]
        IN  /\ TaskLogsToday(t.id) <= t.perDayCap
            /\ Get(state.today.doneCounts, t.id, 0) >= t.perDayCap
                   => quickAddTask(state, t.id) = state

\* the challenge log entries for challenge c with day = today.day
ChallengeLogsToday(c) ==
    Cardinality({i \in 1..Len(state.logs) :
                    /\ state.logs[i].type = "challenge"
                    /\ state.logs[i].id = c
                    /\ state.logs[i].day = state.today.day})

\* C36: today.doneCounts[t] (0 when absent) is the number of task log entries
\* for t with day = today.day, and c is in today.challengeDone exactly when
\* one challenge log entry for c with day = today.day exists, never more than
\* one.
C36_MarkersMatchLog ==
    /\ \A i \in 1..Len(state.tasks) :
           Get(state.today.doneCounts, state.tasks[i].id, 0)
               = TaskLogsToday(state.tasks[i].id)
    /\ \A i \in 1..Len(state.challenges) :
           LET c == state.challenges[i].id
           IN  /\ ChallengeLogsToday(c) <= 1
               /\ c \in state.today.challengeDone <=> ChallengeLogsToday(c) = 1

\* C37: within a game day, a step that lowers today.points or the points or
\* completions of the day's bucket removes one entry from the log: no amount
\* is taken back without its entry leaving the log.
C37_ReversedAtMostOnce ==
    [][ (/\ state'.today.day = state.today.day
         /\ state.today.day \in DOMAIN state.progress
         /\ \/ state'.today.points < state.today.points
            \/ state'.progress[state.today.day].points
                   < state.progress[state.today.day].points
            \/ state'.progress[state.today.day].completions
                   < state.progress[state.today.day].completions)
        => Len(state'.logs) = Len(state.logs) - 1
      ]_vars

\* C38: today.points is the points of the bucket of today.day, 0 when the
\* day has no bucket.
C38_PointsMatchBucket ==
    state.today.points = Get(state.progress, state.today.day, ZeroBucket).points

\* the sum of a field of the progress buckets of the given days
RECURSIVE BucketSum(_, _)
BucketSum(days, field) ==
    IF days = {} THEN 0
    ELSE LET d == CHOOSE x \in days : TRUE
         IN  state.progress[d][field] + BucketSum(days \ {d}, field)

\* C39: profile.coins is the coinsEarned of all days, minus the coinsSpent of
\* all days, plus BossBonus for each boss bonus granted.
C39_CurrencyConserved ==
    state.profile.coins =
        BucketSum(DOMAIN state.progress, "coinsEarned")
        - BucketSum(DOMAIN state.progress, "coinsSpent")
        + BossBonus * bonuses

\* C40: after a step that changes today.day from prevDay to another day,
\* streak.current is above 0 only if that day is the day after prevDay and
\* prevDay had a completion.
C40_StreakIsConsecutive ==
    [][ (state.today.day # NULL /\ state'.today.day # state.today.day)
        => (state'.streak.current > 0
              => /\ state'.today.day = state.today.day + 1
                 /\ Get(state.progress, state.today.day, ZeroBucket).completions > 0)
      ]_vars

====
